---- MODULE Spec2Model ----
(***************************************************************************)
(* LocalLlama gateway (server/main.py): the conversation store (one        *)
(* document file per conversation id plus the index file) and the proxy    *)
(* to the Ollama daemon.                                                   *)
(*                                                                         *)
(* Encoding of JSON values:                                                *)
(*   - an optional payload field is <<>> when the key is absent and <<v>>  *)
(*     when it is present with value v;                                    *)
(*   - conversation ids are 1 and 2, and 0 is the falsy id ("");           *)
(*   - timestamps are 1..MaxTime (ISO strings, ordered as the clock), and  *)
(*     0 is the falsy timestamp ("");                                      *)
(*   - a file is <<>> when it does not exist and <<v>> when it holds the   *)
(*     JSON text of v;                                                     *)
(*   - an upstream body is a sequence of bytes: 97 stands for a JSON       *)
(*     value, 10 is the newline, 255 is a byte that is not valid UTF-8;    *)
(*     a text is a sequence of characters, 65533 being U+FFFD.             *)
(***************************************************************************)
EXTENDS Integers, Sequences, FiniteSets, TLC

\* Bounds of the model: the last reading of the clock, and the length of an
\* upstream response body in bytes.
MaxTime == 2
MaxBody == 3

\* How many requests are in flight at once.
MaxInflight == 2

\* The conversation ids in use: a conversation and another one.
Ids == {1, 2}
Times == 1..MaxTime
EmptyId == 0
EmptyTime == 0

VARIABLES
    convFiles,   \* CONV_DIR: conversation id -> file (<<>> or <<document>>)
    indexFile,   \* INDEX_PATH: [decodable |-> UTF-8 text?, valid |-> parseable
                 \* JSON?, items |-> the list]
    now,         \* the wall clock read by _now_iso
    pc,          \* position of the handler in flight: "idle", "save_mid", "delete_mid"
    pending,     \* what the handler in flight still has to write
    request,     \* the last request received
    reply,       \* the response to it
    inflight,    \* the requests whose handler has started and waits for its body,
                 \* in the order they arrived, each with the index file it could
                 \* have seen then
    overlapped,  \* a handler of the current batch ran after another one wrote
    lastSaved,   \* history of the handlers run to completion: id -> the document
                 \* its last save returned, <<>> once a delete has removed it
    daemon,      \* the response the Ollama daemon gives to a call
    call,        \* the proxied request in flight or last served
    upstream,    \* the daemon's response to it, status 0 while unknown
    relay,       \* position of the streamed response: "idle", "started", "relaying"
    linesLeft,   \* lines of the upstream response not yet iterated
    caller,      \* what the caller has received
    raised,      \* the HTTPException raised for the call: <<>> or <<error>>
    conn,        \* the upstream connection of the streamed call: "none", "open",
                 \* "eof" (body complete), "dropped", "closed"
    unsent,      \* bytes of the body the daemon has not sent yet
    buffer,      \* the line decoder's unfinished line
    gone         \* the caller has disconnected

loopVars == <<inflight, overlapped>>
storeVars == <<convFiles, indexFile, now, pc, pending, request, reply, lastSaved,
               loopVars>>
proxyVars == <<daemon, call, upstream, relay, linesLeft, caller, raised,
               conn, unsent, buffer, gone>>

----------------------------------------------------------------------------
(* Requests and responses *)

NoPayload ==
    [id |-> <<>>, title |-> <<>>, created_at |-> <<>>,
     system |-> <<>>, settings |-> <<>>, messages |-> <<>>]

\* payload.get(key) or default
OrDefault(field, falsy, default) ==
    IF field = <<>> \/ field[1] = falsy THEN default ELSE field[1]

\* payload.get(key, default)
GetDefault(field, default) ==
    IF field = <<>> THEN default ELSE field[1]

Req(op, id, payload) == [op |-> op, id |-> id, payload |-> payload]

Resp(op, status, doc, items) ==
    [op |-> op, status |-> status, doc |-> doc, items |-> items]

NoRequest == Req("none", EmptyId, NoPayload)
NoReply == Resp("none", 0, <<>>, <<>>)

----------------------------------------------------------------------------
(* Storage helpers *)

\* _load_index: read_text raises UnicodeDecodeError on bytes that are not
\* UTF-8, and only json.JSONDecodeError is caught
LoadIndexRaises(f) == ~f.decodable

\* _load_index, where it returns
LoadIndex(f) == IF f.valid THEN f.items ELSE <<>>

\* _save_index
SaveIndex(items) == [decodable |-> TRUE, valid |-> TRUE, items |-> items]

\* _load_conversation: None (<<>>) when the file does not exist
LoadConversation(files, conv_id) == files[conv_id]

\* a save that keeps the content of the document it finds
SaveConversationMerging(files, data) ==
    IF files[data.id] = <<>>
    THEN [files EXCEPT ![data.id] = <<data>>]
    ELSE [files EXCEPT ![data.id] =
            <<[data EXCEPT !.system = files[data.id][1].system,
                           !.settings = files[data.id][1].settings,
                           !.messages = files[data.id][1].messages]>>]

\* _save_conversation
SaveConversation(files, data) == [files EXCEPT ![data.id] = <<data>>]

\* Path.unlink(missing_ok=True)
Unlink(files, conv_id) == [files EXCEPT ![conv_id] = <<>>]

\* position of the first entry of items with this id, 0 when there is none
FindEntry(items, conv_id) ==
    IF \E k \in 1..Len(items) : items[k].id = conv_id
    THEN CHOOSE k \in 1..Len(items) :
            /\ items[k].id = conv_id
            /\ \A j \in 1..(k - 1) : items[j].id # conv_id
    ELSE 0

NewEntry(conv_id, title, updated_at, created_at) ==
    [id |-> conv_id, title |-> title,
     created_at |-> created_at, updated_at |-> updated_at]

\* an upsert that never finds the entry
UpsertAlwaysAppends(f, conv_id, title, updated_at, created_at) ==
    SaveIndex(Append(LoadIndex(f), NewEntry(conv_id, title, updated_at, created_at)))

\* an upsert that forgets updated_at
UpsertKeepsUpdatedAt(f, conv_id, title, updated_at, created_at) ==
    LET items == LoadIndex(f)
        k == FindEntry(items, conv_id)
    IN  IF k # 0
        THEN SaveIndex([items EXCEPT ![k].title = title])
        ELSE SaveIndex(Append(items, NewEntry(conv_id, title, updated_at, created_at)))

\* an upsert that rewrites the whole entry
UpsertRewritesEntry(f, conv_id, title, updated_at, created_at) ==
    LET items == LoadIndex(f)
        k == FindEntry(items, conv_id)
    IN  IF k # 0
        THEN SaveIndex([items EXCEPT
                ![k] = NewEntry(conv_id, title, updated_at, created_at)])
        ELSE SaveIndex(Append(items, NewEntry(conv_id, title, updated_at, created_at)))

\* _upsert_index_entry
UpsertIndexEntry(f, conv_id, title, updated_at, created_at) ==
    LET items == LoadIndex(f)
        k == FindEntry(items, conv_id)
    IN  IF k # 0
        THEN SaveIndex([items EXCEPT ![k].title = title,
                                     ![k].updated_at = updated_at])
        ELSE SaveIndex(Append(items, NewEntry(conv_id, title, updated_at, created_at)))

\* a filter with the comparison the wrong way round
FilterKeepsOnly(items, conv_id) == SelectSeq(items, LAMBDA item : item.id = conv_id)

\* [item for item in _load_index() if item["id"] != conv_id]
FilterOut(items, conv_id) == SelectSeq(items, LAMBDA item : item.id # conv_id)

----------------------------------------------------------------------------
(* save_conversation and delete_conversation, write by write *)

\* the two storage artifacts as one value
Store == [conv |-> convFiles, index |-> indexFile, failed |-> FALSE]

\* uuid4().hex: an id no document and no index entry carries
FreshIds ==
    {i \in Ids : convFiles[i] = <<>> /\ FindEntry(LoadIndex(indexFile), i) = 0}

\* conv_id = payload.get("id") or uuid4().hex
ResolveId(p) ==
    IF p.id = <<>> \/ p.id[1] = EmptyId THEN FreshIds ELSE {p.id[1]}

\* the readings of _now_iso for created_at: taken only when the payload's is falsy
CreatedClock(p) ==
    IF p.created_at = <<>> \/ p.created_at[1] = EmptyTime THEN now..MaxTime ELSE {now}

\* the document save_conversation assembles
BuildData(p, conv_id, t1, t2) ==
    [id |-> conv_id,
     title |-> OrDefault(p.title, "", "Untitled"),
     created_at |-> OrDefault(p.created_at, EmptyTime, t1),
     updated_at |-> t2,
     system |-> GetDefault(p.system, ""),
     settings |-> GetDefault(p.settings, "{}"),
     messages |-> GetDefault(p.messages, "[]")]

\* the index written before the document
SaveWriteOrderIndexFirst == <<"index", "doc">>

\* the order of the two writes of save_conversation
SaveWriteOrder == <<"doc", "index">>

\* one write of save_conversation; an exception ends the handler
SaveWrite(kind, data, st) ==
    IF st.failed THEN st
    ELSE IF kind = "doc"
    THEN [st EXCEPT !.conv = SaveConversation(@, data)]
    ELSE IF LoadIndexRaises(st.index)
    THEN [st EXCEPT !.failed = TRUE]
    ELSE [st EXCEPT !.index = UpsertIndexEntry(@, data.id, data.title,
                                               data.updated_at, data.created_at)]

\* the order of the two writes of delete_conversation
DeleteWriteOrder == <<"unlink", "index">>

\* one write of delete_conversation; an exception ends the handler
DeleteWrite(kind, conv_id, st) ==
    IF st.failed THEN st
    ELSE IF kind = "unlink"
    THEN [st EXCEPT !.conv = Unlink(@, conv_id)]
    ELSE IF LoadIndexRaises(st.index)
    THEN [st EXCEPT !.failed = TRUE]
    ELSE [st EXCEPT !.index = SaveIndex(FilterOut(LoadIndex(@), conv_id))]

NoPending == [data |-> <<>>, id |-> EmptyId]

NotFound(op) == Resp(op, 404, <<>>, <<>>)

\* the answer to a request whose handler raised something else than an
\* HTTPException
ServerError(op) == Resp(op, 500, <<>>, <<>>)

\* a delete that does not look for the document
DeleteNeverNotFound(data) == FALSE

\* delete_conversation: "if not data"
DeleteNotFound(data) == data = <<>>

----------------------------------------------------------------------------
(* The handlers of the conversation endpoints, each run to completion *)

\* save_conversation after "await request.json()", on the storage st0 it reads
SaveStep(p, st0) ==
    /\ pc = "idle"
    /\ \E conv_id \in ResolveId(p), t1 \in CreatedClock(p) :
       \E t2 \in t1..MaxTime :
          LET data == BuildData(p, conv_id, t1, t2)
              st1 == SaveWrite(SaveWriteOrder[1], data, st0)
              st2 == SaveWrite(SaveWriteOrder[2], data, st1)
          IN  /\ convFiles' = st2.conv
              /\ indexFile' = st2.index
              /\ now' = t2
              /\ request' = Req("save", EmptyId, p)
              /\ reply' = IF st2.failed THEN ServerError("save")
                           ELSE Resp("save", 200, <<data>>, <<>>)
              /\ lastSaved' = [lastSaved EXCEPT ![conv_id] =
                                  IF st2.failed THEN <<>> ELSE <<data>>]
    /\ UNCHANGED <<pc, pending>>
    /\ UNCHANGED proxyVars

\* POST /api/conversations
Save(p) == SaveStep(p, Store) /\ UNCHANGED loopVars

\* delete_conversation, on the storage st0 it reads
DeleteStep(conv_id, st0) ==
    /\ pc = "idle"
    /\ request' = Req("delete", conv_id, NoPayload)
    /\ IF DeleteNotFound(LoadConversation(st0.conv, conv_id))
       THEN /\ reply' = NotFound("delete")
            /\ UNCHANGED <<convFiles, indexFile, lastSaved>>
       ELSE LET st1 == DeleteWrite(DeleteWriteOrder[1], conv_id, st0)
                st2 == DeleteWrite(DeleteWriteOrder[2], conv_id, st1)
            IN  /\ convFiles' = st2.conv
                /\ indexFile' = st2.index
                /\ reply' = IF st2.failed THEN ServerError("delete")
                             ELSE Resp("delete", 200, <<>>, <<>>)
                /\ lastSaved' = [lastSaved EXCEPT ![conv_id] = <<>>]
    /\ UNCHANGED <<now, pc, pending>>
    /\ UNCHANGED proxyVars

\* DELETE /api/conversations/{conv_id}
Delete(conv_id) == DeleteStep(conv_id, Store) /\ UNCHANGED loopVars

\* GET /api/conversations/{conv_id}
Get(conv_id) ==
    /\ pc = "idle"
    /\ request' = Req("get", conv_id, NoPayload)
    /\ LET data == LoadConversation(convFiles, conv_id)
       IN  reply' = IF data = <<>> THEN NotFound("get")
                    ELSE Resp("get", 200, data, <<>>)
    /\ UNCHANGED <<convFiles, indexFile, now, pc, pending, lastSaved>>
    /\ UNCHANGED proxyVars
    /\ UNCHANGED loopVars

\* GET /api/conversations
List ==
    /\ pc = "idle"
    /\ request' = Req("list", EmptyId, NoPayload)
    /\ reply' = IF LoadIndexRaises(indexFile) THEN ServerError("list")
                 ELSE Resp("list", 200, <<>>, LoadIndex(indexFile))
    /\ UNCHANGED <<convFiles, indexFile, now, pc, pending, lastSaved>>
    /\ UNCHANGED proxyVars
    /\ UNCHANGED loopVars

----------------------------------------------------------------------------
(* Requests in flight in one event loop *)

\* save_conversation is suspended once, at "await request.json()", before it
\* reads or writes anything; delete_conversation has no await at all. A
\* handler that was started has done nothing to the storage yet.
Arrive(op, conv_id, p) ==
    /\ pc = "idle"
    /\ Len(inflight) < MaxInflight
    /\ inflight' = Append(inflight, [op |-> op, id |-> conv_id, payload |-> p,
                                     seen |-> indexFile])
    /\ overlapped' = (inflight # <<>> /\ overlapped)
    /\ UNCHANGED <<convFiles, indexFile, now, pc, pending, request, reply,
                   lastSaved>>
    /\ UNCHANGED proxyVars

RemoveAt(q, k) == SubSeq(q, 1, k - 1) \o SubSeq(q, k + 1, Len(q))

\* an index read taken when the handler started, before its suspension
IndexReadAtArrival(seen, current) == seen

\* _load_index is called inside the storage part: it reads the file as it is
\* when the handler runs
IndexRead(seen, current) == current

\* the storage as the handler of the k-th request in flight reads it
StoreSeenBy(k) ==
    [Store EXCEPT !.index = IndexRead(inflight[k].seen, indexFile)]

\* the event loop resumes one handler, which runs to its end
Resume(k) ==
    /\ k \in 1..Len(inflight)
    /\ inflight' = RemoveAt(inflight, k)
    /\ overlapped' = (overlapped \/ inflight[k].seen # indexFile)

RunSave(k) ==
    /\ Resume(k)
    /\ inflight[k].op = "save"
    /\ SaveStep(inflight[k].payload, StoreSeenBy(k))

RunDelete(k) ==
    /\ Resume(k)
    /\ inflight[k].op = "delete"
    /\ DeleteStep(inflight[k].id, StoreSeenBy(k))

\* the index file is damaged from outside, between two requests: its content
\* is no JSON any more, as text that does not parse or as bytes that are no
\* text
Corrupt(decodable) ==
    /\ pc = "idle"
    /\ indexFile' = [decodable |-> decodable, valid |-> FALSE, items |-> <<>>]
    /\ request' = NoRequest
    /\ reply' = NoReply
    /\ UNCHANGED <<convFiles, now, pc, pending, lastSaved>>
    /\ UNCHANGED proxyVars
    /\ UNCHANGED loopVars

----------------------------------------------------------------------------
(* The same handlers one write at a time, with the process stopping between *)

SaveBegin(p) ==
    /\ pc = "idle"
    /\ \E conv_id \in ResolveId(p), t1 \in CreatedClock(p) :
       \E t2 \in t1..MaxTime :
          LET data == BuildData(p, conv_id, t1, t2)
              st1 == SaveWrite(SaveWriteOrder[1], data, Store)
          IN  /\ convFiles' = st1.conv
              /\ indexFile' = st1.index
              /\ now' = t2
              /\ pending' = IF st1.failed THEN NoPending
                             ELSE [data |-> <<data>>, id |-> conv_id]
              /\ pc' = IF st1.failed THEN "idle" ELSE "save_mid"
              /\ reply' = IF st1.failed THEN ServerError("save") ELSE NoReply
    /\ request' = Req("save", EmptyId, p)
    /\ UNCHANGED lastSaved
    /\ UNCHANGED proxyVars
    /\ UNCHANGED loopVars

SaveFinish ==
    /\ pc = "save_mid"
    /\ LET data == pending.data[1]
           st2 == SaveWrite(SaveWriteOrder[2], data, Store)
       IN  /\ convFiles' = st2.conv
           /\ indexFile' = st2.index
           /\ reply' = IF st2.failed THEN ServerError("save")
                        ELSE Resp("save", 200, <<data>>, <<>>)
    /\ pc' = "idle"
    /\ pending' = NoPending
    /\ UNCHANGED <<now, request, lastSaved>>
    /\ UNCHANGED proxyVars
    /\ UNCHANGED loopVars

DeleteBegin(conv_id) ==
    /\ pc = "idle"
    /\ request' = Req("delete", conv_id, NoPayload)
    /\ IF DeleteNotFound(LoadConversation(convFiles, conv_id))
       THEN /\ reply' = NotFound("delete")
            /\ UNCHANGED <<convFiles, indexFile, pc, pending>>
       ELSE LET st1 == DeleteWrite(DeleteWriteOrder[1], conv_id, Store)
            IN  /\ convFiles' = st1.conv
                /\ indexFile' = st1.index
                /\ pc' = IF st1.failed THEN "idle" ELSE "delete_mid"
                /\ pending' = IF st1.failed THEN NoPending
                               ELSE [data |-> <<>>, id |-> conv_id]
                /\ reply' = IF st1.failed THEN ServerError("delete") ELSE NoReply
    /\ UNCHANGED <<now, lastSaved>>
    /\ UNCHANGED proxyVars
    /\ UNCHANGED loopVars

DeleteFinish ==
    /\ pc = "delete_mid"
    /\ LET st2 == DeleteWrite(DeleteWriteOrder[2], pending.id, Store)
       IN  /\ convFiles' = st2.conv
           /\ indexFile' = st2.index
           /\ reply' = IF st2.failed THEN ServerError("delete")
                        ELSE Resp("delete", 200, <<>>, <<>>)
    /\ pc' = "idle"
    /\ pending' = NoPending
    /\ UNCHANGED <<now, request, lastSaved>>
    /\ UNCHANGED proxyVars
    /\ UNCHANGED loopVars

\* the process dies between the two writes of a handler and is restarted
Crash ==
    /\ pc # "idle"
    /\ pc' = "idle"
    /\ pending' = NoPending
    /\ reply' = NoReply
    /\ UNCHANGED <<convFiles, indexFile, now, request, lastSaved>>
    /\ UNCHANGED proxyVars
    /\ UNCHANGED loopVars

----------------------------------------------------------------------------
(* The upstream client *)

Newline == 10
JsonByte == 97
BadByte == 255
Replacement == 65533

Bytes == {JsonByte, Newline, BadByte}

RECURSIVE SeqsUpTo(_, _)
SeqsUpTo(S, n) ==
    IF n = 0 THEN {<<>>}
    ELSE LET shorter == SeqsUpTo(S, n - 1)
         IN  shorter \cup {Append(q, x) : q \in shorter, x \in S}

Bodies == SeqsUpTo(Bytes, MaxBody)
Statuses == {200, 302, 400, 500}
UpstreamResponses == [status : Statuses, body : Bodies]

NoUpstream == [status |-> 0, body |-> <<>>]

\* response.text: undecodable bytes become U+FFFD
ResponseText(body) ==
    [k \in 1..Len(body) |-> IF body[k] = BadByte THEN Replacement ELSE body[k]]

\* detail.decode("utf-8", "ignore"): undecodable bytes are dropped
DecodeIgnore(body) == SelectSeq(body, LAMBDA b : b # BadByte)

\* response.json() parses: one JSON value and whitespace
IsJson(body) ==
    /\ \A k \in 1..Len(body) : body[k] # BadByte
    /\ Cardinality({k \in 1..Len(body) : body[k] = JsonByte}) = 1

\* str.splitlines as response.aiter_lines applies it to the decoded body
RECURSIVE SplitLines(_, _)
SplitLines(text, cur) ==
    IF text = <<>> THEN (IF cur = <<>> THEN <<>> ELSE <<cur>>)
    ELSE IF Head(text) = Newline
         THEN <<cur>> \o SplitLines(Tail(text), <<>>)
         ELSE SplitLines(Tail(text), Append(cur, Head(text)))

\* response.aiter_lines()
IterLines(body) == SplitLines(ResponseText(body), <<>>)

\* raise HTTPException(status_code, detail)
HTTPException(status, detail) == [kind |-> "error", status |-> status, body |-> detail]

\* return response.json(), or the JSONDecodeError it raises
ResponseJson(resp) ==
    IF IsJson(resp.body)
    THEN [kind |-> "json", status |-> 200, body |-> ResponseText(resp.body)]
    ELSE [kind |-> "crash", status |-> 500, body |-> <<>>]

\* a client that takes only 5xx for a failure
OllamaPostJsonOnly5xx(resp) ==
    IF resp.status >= 500
    THEN HTTPException(resp.status, ResponseText(resp.body))
    ELSE ResponseJson(resp)

\* _ollama_get
OllamaGet(resp) ==
    IF resp.status >= 400
    THEN HTTPException(resp.status, ResponseText(resp.body))
    ELSE ResponseJson(resp)

\* _ollama_post_json
OllamaPostJson(resp) ==
    IF resp.status >= 400
    THEN HTTPException(resp.status, ResponseText(resp.body))
    ELSE ResponseJson(resp)

\* a stream that takes only 5xx for a failure
OllamaStreamOnly5xx(resp) ==
    IF resp.status >= 500
    THEN HTTPException(resp.status, DecodeIgnore(resp.body))
    ELSE [kind |-> "lines", status |-> resp.status, body |-> IterLines(resp.body)]

\* _ollama_stream up to its first line: the error it raises, or the lines
OllamaStream(resp) ==
    IF resp.status >= 400
    THEN HTTPException(resp.status, DecodeIgnore(resp.body))
    ELSE [kind |-> "lines", status |-> resp.status, body |-> IterLines(resp.body)]

----------------------------------------------------------------------------
(* The handlers of the model endpoints and of pull, chat and generate *)

GetEndpoints == {"models", "running"}
PostEndpoints == {"pull", "chat", "generate"}

\* the "stream" key of the payload: absent, true or false
OptStream == {<<>>, <<TRUE>>, <<FALSE>>}

NoCall == [endpoint |-> "none", stream |-> <<>>, shape |-> "none"]

Response(status, kind, body, chunks, open) ==
    [status |-> status, kind |-> kind, body |-> body, chunks |-> chunks, open |-> open]

NoResponse == Response(0, "none", <<>>, <<>>, FALSE)

\* what the caller gets for the result of a buffered upstream call:
\* JSONResponse(data), FastAPI's answer to an HTTPException, or a 500
BufferedResponse(result) ==
    Response(result.status, result.kind, result.body, <<>>, FALSE)

\* list_models, list_running
Models(endpoint) ==
    /\ relay = "idle"
    /\ endpoint \in GetEndpoints
    /\ LET result == OllamaGet(daemon)
       IN  /\ raised' = IF result.kind = "error" THEN <<result>> ELSE <<>>
           /\ caller' = BufferedResponse(result)
    /\ call' = [endpoint |-> endpoint, stream |-> <<>>, shape |-> "GET"]
    /\ upstream' = daemon
    /\ gone' = FALSE
    /\ UNCHANGED <<daemon, relay, linesLeft, conn, unsent, buffer>>
    /\ UNCHANGED storeVars

\* pull_model, chat, generate with a falsy "stream"
Buffered(endpoint, stream) ==
    /\ relay = "idle"
    /\ endpoint \in PostEndpoints
    /\ ~GetDefault(stream, TRUE)
    /\ LET result == OllamaPostJson(daemon)
       IN  /\ raised' = IF result.kind = "error" THEN <<result>> ELSE <<>>
           /\ caller' = BufferedResponse(result)
    /\ call' = [endpoint |-> endpoint, stream |-> stream, shape |-> "POST-JSON"]
    /\ upstream' = daemon
    /\ gone' = FALSE
    /\ UNCHANGED <<daemon, relay, linesLeft, conn, unsent, buffer>>
    /\ UNCHANGED storeVars

\* pull_model, chat, generate with "stream" true or absent: the handler
\* returns StreamingResponse(_ollama_stream(...)) without running the
\* generator, and the response starts (status 200, application/x-ndjson)
\* before the generator's first step
StreamStart(endpoint, stream) ==
    /\ relay = "idle"
    /\ endpoint \in PostEndpoints
    /\ GetDefault(stream, TRUE)
    /\ call' = [endpoint |-> endpoint, stream |-> stream, shape |-> "POST-STREAM"]
    /\ upstream' = NoUpstream
    /\ caller' = Response(200, "stream", <<>>, <<>>, TRUE)
    /\ raised' = <<>>
    /\ relay' = "started"
    /\ linesLeft' = <<>>
    /\ conn' = "none"
    /\ unsent' = <<>>
    /\ buffer' = <<>>
    /\ gone' = FALSE
    /\ UNCHANGED daemon
    /\ UNCHANGED storeVars

\* the generator's first step: the upstream call is made and its status is
\* read; an HTTPException raised now finds the response already started, so
\* the stream is cut without a chunk. Otherwise the body is read as it comes.
StreamOpen ==
    /\ relay = "started"
    /\ upstream' = daemon
    /\ LET result == OllamaStream(daemon)
       IN  IF result.kind = "error"
           THEN /\ raised' = <<result>>
                /\ caller' = [caller EXCEPT !.open = FALSE, !.kind = "cut"]
                /\ relay' = "idle"
                /\ conn' = "closed"
                /\ UNCHANGED unsent
           ELSE /\ unsent' = daemon.body
                /\ conn' = "open"
                /\ relay' = "relaying"
                /\ UNCHANGED <<raised, caller>>
    /\ UNCHANGED <<daemon, call, linesLeft, buffer, gone>>
    /\ UNCHANGED storeVars

\* the line decoder of aiter_lines takes one more byte of the body
DecodeByte(dec, b) ==
    IF b = Newline
    THEN [buffer |-> <<>>, lines |-> Append(dec.lines, dec.buffer)]
    ELSE [buffer |-> Append(dec.buffer, ResponseText(<<b>>)[1]), lines |-> dec.lines]

\* the line decoder at the end of the body: an unfinished line is a line
DecodeFlush(dec) ==
    [buffer |-> <<>>,
     lines |-> IF dec.buffer = <<>> THEN dec.lines ELSE Append(dec.lines, dec.buffer)]

\* the daemon sends the next byte of the body
DaemonSends ==
    /\ conn = "open"
    /\ unsent # <<>>
    /\ LET dec == DecodeByte([buffer |-> buffer, lines |-> linesLeft], Head(unsent))
       IN  /\ buffer' = dec.buffer
           /\ linesLeft' = dec.lines
    /\ unsent' = Tail(unsent)
    /\ UNCHANGED <<daemon, call, upstream, relay, caller, raised, conn, gone>>
    /\ UNCHANGED storeVars

\* the daemon ends the body
DaemonCloses ==
    /\ conn = "open"
    /\ unsent = <<>>
    /\ LET dec == DecodeFlush([buffer |-> buffer, lines |-> linesLeft])
       IN  /\ buffer' = dec.buffer
           /\ linesLeft' = dec.lines
    /\ conn' = "eof"
    /\ UNCHANGED <<daemon, call, upstream, relay, caller, raised, unsent, gone>>
    /\ UNCHANGED storeVars

\* the connection to the daemon breaks: what was not sent never arrives
DaemonDrops ==
    /\ conn = "open"
    /\ conn' = "dropped"
    /\ UNCHANGED <<daemon, call, upstream, relay, linesLeft, caller, raised,
                   unsent, buffer, gone>>
    /\ UNCHANGED storeVars

\* str.encode("utf-8"): U+FFFD takes three bytes, a character of the ASCII
\* range one
RECURSIVE EncodeUtf8(_)
EncodeUtf8(text) ==
    IF text = <<>> THEN <<>>
    ELSE (IF Head(text) = Replacement THEN <<239, 191, 189>> ELSE <<Head(text)>>)
         \o EncodeUtf8(Tail(text))

\* a relay that forwards empty lines too
RelayLineKeepsEmpty(chunks, line) ==
    Append(chunks, EncodeUtf8(Append(line, Newline)))

\* "if not line: continue" and "yield (line + "\n").encode("utf-8")"
RelayLine(chunks, line) ==
    IF line = <<>> THEN chunks
    ELSE Append(chunks, EncodeUtf8(Append(line, Newline)))

\* one turn of "async for line in response.aiter_lines()"; a chunk that finds
\* the caller gone ends the generator, and the "async with" blocks close
StreamLine ==
    /\ relay = "relaying"
    /\ linesLeft # <<>>
    /\ LET chunks == RelayLine(caller.chunks, Head(linesLeft))
       IN  IF gone /\ chunks # caller.chunks
           THEN /\ relay' = "idle"
                /\ conn' = "closed"
                /\ UNCHANGED <<caller, linesLeft>>
           ELSE /\ caller' = [caller EXCEPT !.chunks = chunks]
                /\ linesLeft' = Tail(linesLeft)
                /\ UNCHANGED <<relay, conn>>
    /\ UNCHANGED <<daemon, call, upstream, raised, unsent, buffer, gone>>
    /\ UNCHANGED storeVars

\* the upstream response is exhausted: the generator returns
StreamEnd ==
    /\ relay = "relaying"
    /\ linesLeft = <<>>
    /\ conn = "eof"
    /\ caller' = [caller EXCEPT !.open = FALSE]
    /\ relay' = "idle"
    /\ conn' = "closed"
    /\ UNCHANGED <<daemon, call, upstream, linesLeft, raised, unsent, buffer, gone>>
    /\ UNCHANGED storeVars

\* a stream cut with a last chunk that says so
CutStreamWithMarker(c) ==
    [c EXCEPT !.open = FALSE, !.kind = "cut", !.chunks = Append(@, <<Newline>>)]

\* what the caller sees when the generator raises: the stream just ends
CutStream(c) == [c EXCEPT !.open = FALSE, !.kind = "cut"]

\* the read of the next line finds the connection broken: aiter_lines raises
\* out of the generator
StreamFail ==
    /\ relay = "relaying"
    /\ linesLeft = <<>>
    /\ conn = "dropped"
    /\ caller' = CutStream(caller)
    /\ relay' = "idle"
    /\ conn' = "closed"
    /\ UNCHANGED <<daemon, call, upstream, linesLeft, raised, unsent, buffer, gone>>
    /\ UNCHANGED storeVars

\* the caller disconnects while the response is streamed
CallerDisconnects ==
    /\ relay \in {"started", "relaying"}
    /\ ~gone
    /\ gone' = TRUE
    /\ UNCHANGED <<daemon, call, upstream, relay, linesLeft, caller, raised,
                   conn, unsent, buffer>>
    /\ UNCHANGED storeVars

\* whether the server stops the generator while it waits for the daemon is
\* not decided by main.py: the generator watches nothing but the upstream
\* response. Where the server does so, the "async with" blocks close.
DisconnectNoticed ==
    /\ gone
    /\ relay \in {"started", "relaying"}
    /\ relay' = "idle"
    /\ conn' = IF conn = "none" THEN "none" ELSE "closed"
    /\ UNCHANGED <<daemon, call, upstream, linesLeft, caller, raised,
                   unsent, buffer, gone>>
    /\ UNCHANGED storeVars

----------------------------------------------------------------------------
(* Inputs *)

OptId == {<<>>, <<EmptyId>>} \cup {<<i>> : i \in Ids}
OptTitle == {<<>>, <<"">>, <<"T">>}
OptCreated == {<<>>, <<EmptyTime>>, <<1>>}

\* the content fields come together or not at all
OptContent ==
    {[system |-> <<>>, settings |-> <<>>, messages |-> <<>>],
     [system |-> <<"S">>, settings |-> <<"{k}">>, messages |-> <<"[m]">>]}

HasAbsent(p) == p.id = <<>> \/ p.title = <<>> \/ p.created_at = <<>>
HasFalsy(p) ==
    p.id = <<EmptyId>> \/ p.title = <<"">> \/ p.created_at = <<EmptyTime>>

\* a payload leaves out id, title and created_at either by omitting the key or
\* by sending a falsy value, not both ways at once
Payloads ==
    {p \in {[id |-> i, title |-> t, created_at |-> c, system |-> x.system,
             settings |-> x.settings, messages |-> x.messages] :
                i \in OptId, t \in OptTitle, c \in OptCreated, x \in OptContent} :
        ~(HasAbsent(p) /\ HasFalsy(p))}

\* payloads that carry no content field and no falsy value
CorePayloads ==
    {p \in Payloads :
        p.system = <<>> /\ ~HasFalsy(p)}

----------------------------------------------------------------------------
(* Specifications *)

\* _ensure_data_dirs: empty conversation directory, index "[]"
InitStore ==
    /\ convFiles = [i \in Ids |-> <<>>]
    /\ indexFile = SaveIndex(<<>>)
    /\ now = 1
    /\ pc = "idle"
    /\ pending = NoPending
    /\ request = NoRequest
    /\ reply = NoReply
    /\ lastSaved = [i \in Ids |-> <<>>]
    /\ inflight = <<>>
    /\ overlapped = FALSE

\* no proxied call yet
InitCalls ==
    /\ call = NoCall
    /\ upstream = NoUpstream
    /\ relay = "idle"
    /\ linesLeft = <<>>
    /\ caller = NoResponse
    /\ raised = <<>>
    /\ conn = "none"
    /\ unsent = <<>>
    /\ buffer = <<>>
    /\ gone = FALSE

Init == InitStore /\ InitCalls /\ daemon = NoUpstream

\* the daemon answers the proxied calls with any status and body
InitProxy == InitStore /\ InitCalls /\ daemon \in UpstreamResponses

vars == <<convFiles, indexFile, now, pc, pending, request, reply, lastSaved,
          inflight, overlapped,
          daemon, call, upstream, relay, linesLeft, caller, raised,
          conn, unsent, buffer, gone>>

Next ==
    \/ \E p \in Payloads : Save(p)
    \/ \E i \in Ids : Delete(i)
    \/ \E i \in Ids : Get(i)
    \/ List

Spec == Init /\ [][Next]_vars

\* payloads of the requests in flight: a new conversation, or the first
\* conversation under one title or another
LoopPayloads ==
    {p \in CorePayloads :
        /\ p.created_at = <<>>
        /\ p.id \in {<<>>, <<1>>}
        /\ p.id = <<>> => p.title = <<>>}

NextConcurrent ==
    \/ \E p \in LoopPayloads : Arrive("save", EmptyId, p)
    \/ \E i \in Ids : Arrive("delete", i, NoPayload)
    \/ \E k \in 1..MaxInflight : RunSave(k)
    \/ \E k \in 1..MaxInflight : RunDelete(k)

\* the store under requests that overlap
SpecConcurrent == Init /\ [][NextConcurrent]_vars

NextCorrupt ==
    \/ \E p \in CorePayloads : Save(p)
    \/ \E i \in Ids : Delete(i)
    \/ \E i \in Ids : Get(i)
    \/ List
    \/ \E decodable \in BOOLEAN : Corrupt(decodable)

\* the store with an index file that can be damaged
SpecCorrupt == Init /\ [][NextCorrupt]_vars

NextCrash ==
    \/ \E p \in CorePayloads : SaveBegin(p)
    \/ SaveFinish
    \/ \E i \in Ids : DeleteBegin(i)
    \/ DeleteFinish
    \/ Crash
    \/ \E i \in Ids : Get(i)

SpecCrash == Init /\ [][NextCrash]_vars

NextProxy ==
    \/ \E e \in GetEndpoints : Models(e)
    \/ \E e \in PostEndpoints, f \in OptStream : Buffered(e, f)
    \/ \E e \in PostEndpoints, f \in OptStream : StreamStart(e, f)
    \/ StreamOpen
    \/ DaemonSends
    \/ DaemonCloses
    \/ DaemonDrops
    \/ StreamLine
    \/ StreamEnd
    \/ StreamFail
    \/ CallerDisconnects
    \/ DisconnectNoticed

SpecProxy == InitProxy /\ [][NextProxy]_vars

\* the event loop runs every step of the generator that can be taken; nothing
\* makes the daemon send, or the server notice a caller that is gone
RelayFairness ==
    /\ WF_vars(StreamOpen)
    /\ WF_vars(StreamLine)
    /\ WF_vars(StreamEnd)
    /\ WF_vars(StreamFail)

SpecProxyFair == InitProxy /\ [][NextProxy]_vars /\ RelayFairness

----------------------------------------------------------------------------
(* Properties of the conversation store *)

Items == indexFile.items
Positions == 1..Len(Items)
IndexIds == {Items[k].id : k \in Positions}
DocIds == {i \in Ids : convFiles[i] # <<>>}
Doc(i) == convFiles[i][1]

\* ids with an index entry and no document
Orphans == IndexIds \ DocIds

\* C1: after completed saves and deletes from the empty store, the ids of the
\* index are exactly the ids that have a document, and none occurs twice.
C1_OneEntryPerLiveId ==
    /\ indexFile.valid
    /\ IndexIds = DocIds
    /\ \A j, k \in Positions : j # k => Items[j].id # Items[k].id

\* two conversations live, the index listing both, a save just completed
C1_Witness ==
    /\ request.op = "save"
    /\ DocIds = Ids
    /\ Len(Items) = 2

\* C2: an index entry whose id has a document carries the title and updated_at
\* of that document.
C2_EntryReflectsDocument ==
    \A k \in Positions :
        Items[k].id \in DocIds =>
            /\ Items[k].title = Doc(Items[k].id).title
            /\ Items[k].updated_at = Doc(Items[k].id).updated_at

\* an entry that a later save has renamed and re-stamped
C2_Witness ==
    \E k \in Positions :
        /\ Items[k].id \in DocIds
        /\ Items[k].title = "T"
        /\ Items[k].updated_at > Items[k].created_at
        /\ Items[k].created_at # Doc(Items[k].id).created_at

\* C3: a save of an id without index entry appends one entry and leaves the
\* others as they are; a save of an id with an entry keeps length and order
\* and changes only that entry's title and updated_at.
C3_SaveFrame ==
    [][(request'.op = "save" /\ reply'.status = 200) =>
        LET d == reply'.doc[1]
            old == indexFile.items
            new == indexFile'.items
            k == FindEntry(old, d.id)
        IN  IF k = 0
            THEN /\ Len(new) = Len(old) + 1
                 /\ SubSeq(new, 1, Len(old)) = old
                 /\ new[Len(new)].id = d.id
            ELSE /\ Len(new) = Len(old)
                 /\ \A j \in 1..Len(old) : j # k => new[j] = old[j]
                 /\ new[k].id = old[k].id
                 /\ new[k].created_at = old[k].created_at
                 /\ new[k].title = d.title
                 /\ new[k].updated_at = d.updated_at]_vars

\* a save of the first of two listed conversations, whose entry keeps a
\* created_at that the saved document no longer has
C3_Witness ==
    /\ request.op = "save"
    /\ reply.status = 200
    /\ Len(Items) = 2
    /\ Items[1].id = reply.doc[1].id
    /\ Items[1].created_at # reply.doc[1].created_at
    /\ Items[1].updated_at = reply.doc[1].updated_at

\* C4: a delete of an id that has a document answers 200, removes that
\* document and that id's index entry and nothing else; a get of an id without
\* document answers 404, and a document comes (back) only by a save.
C4_DeleteRemovesBoth ==
    [][/\ (request'.op = "delete" /\ convFiles[request'.id] # <<>>) =>
            LET id == request'.id
                old == indexFile.items
                new == indexFile'.items
                k == FindEntry(old, id)
            IN  /\ reply'.status = 200
                /\ convFiles' = [convFiles EXCEPT ![id] = <<>>]
                /\ k # 0
                /\ Len(new) = Len(old) - 1
                /\ \A j \in 1..Len(new) :
                      new[j] = IF j < k THEN old[j] ELSE old[j + 1]
       /\ (request'.op = "get" /\ convFiles[request'.id] = <<>>) =>
            reply'.status = 404
       /\ \A i \in Ids :
            (convFiles[i] = <<>> /\ convFiles'[i] # <<>>) =>
                (request'.op = "save" /\ reply'.doc[1].id = i)]_vars

\* a delete has just succeeded and the other conversation is still listed
C4_Witness ==
    /\ request.op = "delete"
    /\ reply.status = 200
    /\ Len(Items) = 1
    /\ DocIds = IndexIds

\* C5: a delete of an id that has no document answers 404 and changes neither
\* the documents nor the index, also when the index lists that id.
C5_DeleteMissingChangesNothing ==
    [][(pc = "idle" /\ request'.op = "delete" /\ convFiles[request'.id] = <<>>) =>
        /\ reply'.status = 404
        /\ convFiles' = convFiles
        /\ indexFile' = indexFile]_vars

\* a 404 from delete for an id the index still lists
C5_Witness ==
    /\ pc = "idle"
    /\ request.op = "delete"
    /\ reply.status = 404
    /\ request.id \in Orphans

\* C6: a save of an id that already has a document keeps the created_at of
\* that document, in the file and in the response.
C6_CreatedAtFixed ==
    [][(request'.op = "save" /\ reply'.status = 200
            /\ convFiles[reply'.doc[1].id] # <<>>) =>
        LET id == reply'.doc[1].id
        IN  /\ convFiles'[id][1].created_at = convFiles[id][1].created_at
            /\ reply'.doc[1].created_at = convFiles[id][1].created_at]_vars

\* what a get answers: the document the last save of the id returned
GetAnswersLastSave ==
    (request.op = "get" /\ lastSaved[request.id] # <<>>) =>
        (reply.status = 200 /\ reply.doc = lastSaved[request.id])

\* C7 as stated: the saved document has the provided values where the payload
\* provides them and the defaults otherwise, with updated_at the time of the
\* save, and a get answers the document the save returned.
C7_ProvidedValuesKept ==
    /\ GetAnswersLastSave
    /\ (request.op = "save" /\ reply.status = 200) =>
        LET p == request.payload
            d == reply.doc[1]
        IN  /\ convFiles[d.id] = <<d>>
            /\ p.id # <<>> => d.id = p.id[1]
            /\ d.title = IF p.title # <<>> THEN p.title[1] ELSE "Untitled"
            /\ p.created_at # <<>> => d.created_at = p.created_at[1]
            /\ p.created_at = <<>> => d.created_at \in Times
            /\ d.system = IF p.system # <<>> THEN p.system[1] ELSE ""
            /\ d.settings = IF p.settings # <<>> THEN p.settings[1] ELSE "{}"
            /\ d.messages = IF p.messages # <<>> THEN p.messages[1] ELSE "[]"
            /\ d.updated_at = now

Provided(field, falsy) == field # <<>> /\ field[1] # falsy

\* C7 as amended: id, title and created_at are the provided values where the
\* payload provides a non-empty one, and a minted id, "Untitled" and a reading
\* of the clock not after updated_at otherwise; system, settings and messages
\* are the provided values where the key is present and "", {} and []
\* otherwise; updated_at is the time of the save; the file holds exactly the
\* returned document, and a get answers it until the next save or delete.
C7_RoundTrip ==
    /\ GetAnswersLastSave
    /\ (request.op = "save" /\ reply.status = 200) =>
        LET p == request.payload
            d == reply.doc[1]
        IN  /\ convFiles[d.id] = <<d>>
            /\ lastSaved[d.id] = <<d>>
            /\ d.id \in Ids
            /\ Provided(p.id, EmptyId) => d.id = p.id[1]
            /\ d.title = IF Provided(p.title, "") THEN p.title[1] ELSE "Untitled"
            /\ Provided(p.created_at, EmptyTime) => d.created_at = p.created_at[1]
            /\ ~Provided(p.created_at, EmptyTime) =>
                    (d.created_at \in Times /\ d.created_at <= d.updated_at)
            /\ d.system = IF p.system # <<>> THEN p.system[1] ELSE ""
            /\ d.settings = IF p.settings # <<>> THEN p.settings[1] ELSE "{}"
            /\ d.messages = IF p.messages # <<>> THEN p.messages[1] ELSE "[]"
            /\ d.updated_at = now

\* a get answers a document whose save replaced one with content by one
\* without: the other conversation exists, the answer has the defaults
C7_Witness ==
    /\ request.op = "get"
    /\ reply.status = 200
    /\ reply.doc[1].messages = "[]"
    /\ reply.doc[1].title = "Untitled"
    /\ reply.doc[1].updated_at > reply.doc[1].created_at
    /\ \E k \in Positions :
          Items[k].id = request.id /\ Items[k].created_at # reply.doc[1].created_at

\* C8: no step of a save, and no stop of the process during one, adds an index
\* entry whose id has no document; between the two writes the document of the
\* save is on disk.
C8_SaveWritesDocumentFirst ==
    [][(pc = "save_mid" \/ pc' = "save_mid") =>
        /\ Orphans' \subseteq Orphans
        /\ pc' = "save_mid" => convFiles'[pending'.id] = pending'.data]_vars

\* the process stopped between the two writes of a save: a document on disk
\* that the index does not list
C8_Witness ==
    /\ pc = "idle"
    /\ request.op = "save"
    /\ reply = NoReply
    /\ DocIds \ IndexIds # {}

\* C14: a save whose input carries neither an id nor a created_at returns a
\* document whose created_at equals its updated_at.
C14_NewConversationStampedOnce ==
    (/\ request.op = "save"
     /\ request.payload.id = <<>>
     /\ request.payload.created_at = <<>>
     /\ reply.status = 200) =>
        reply.doc[1].created_at = reply.doc[1].updated_at

\* C19: at every point of a delete, a stop between its two writes included,
\* the index has no entry for an id whose document is missing, so every entry
\* of the index can be removed by a delete of its id (which answers 404, and
\* leaves the index alone, when it finds no document).
C19_NoEntryWithoutDocument ==
    \A k \in 1..Len(indexFile.items) :
        ~DeleteNotFound(LoadConversation(convFiles, indexFile.items[k].id))

----------------------------------------------------------------------------
(* Properties of the proxy *)

\* C9: on a streamed pull, chat or generate whose upstream call fails, the
\* caller gets no response start before the upstream status is known, and then
\* the error response of a buffered endpoint: the upstream's status and body,
\* and no chunk.
C9_StreamFailureIsErrorResponse ==
    call.shape = "POST-STREAM" =>
        /\ upstream.status = 0 => caller.status = 0
        /\ upstream.status >= 400 =>
            /\ raised # <<>>
            /\ caller = BufferedResponse(raised[1])
            /\ caller.status = upstream.status

HasBadByte(body) == \E k \in 1..Len(body) : body[k] = BadByte

IsPrefix(s, t) == Len(s) <= Len(t) /\ \A k \in 1..Len(s) : s[k] = t[k]

NonEmptyLines(lines) == SelectSeq(lines, LAMBDA l : l # <<>>)

\* the lines of the whole upstream body, whatever the pieces it came in
UpstreamLines == IterLines(upstream.body)

\* the chunk of each non-empty line, in the order of the lines
ChunksOf(lines) ==
    [k \in 1..Len(NonEmptyLines(lines)) |->
        EncodeUtf8(NonEmptyLines(lines)[k]) \o <<Newline>>]

StreamSucceeds ==
    /\ call.shape = "POST-STREAM"
    /\ upstream # NoUpstream
    /\ OllamaStream(upstream).kind = "lines"

\* C11: in a successful streamed call the chunks relayed are, at every moment,
\* the first of the chunks "line, then one newline" of the non-empty upstream
\* lines in upstream order, and when the stream has ended they are all of
\* them: one chunk per non-empty line, none for an empty line, nothing
\* merged, split, reordered or duplicated.
C11_OneChunkPerNonEmptyLine ==
    StreamSucceeds =>
        /\ IsPrefix(caller.chunks, ChunksOf(UpstreamLines))
        /\ (caller.kind = "stream" /\ ~caller.open) =>
                caller.chunks = ChunksOf(UpstreamLines)

\* a stream that ended after two different lines, the second without its
\* line end
C11_Witness ==
    /\ StreamSucceeds
    /\ caller.kind = "stream"
    /\ ~caller.open
    /\ upstream.body = <<JsonByte, Newline, BadByte>>
    /\ caller.chunks = <<<<JsonByte, Newline>>, <<239, 191, 189, Newline>>>>

UpstreamHeld == conn \in {"open", "eof", "dropped"}

Received == SubSeq(upstream.body, 1, Len(upstream.body) - Len(unsent))

\* the lines of these bytes that have their line end
TerminatedLines(bytes) ==
    IF bytes = <<>> \/ bytes[Len(bytes)] = Newline
    THEN IterLines(bytes)
    ELSE SubSeq(IterLines(bytes), 1, Len(IterLines(bytes)) - 1)

\* C16: when the upstream connection drops after the stream has started, the
\* relay terminates; as long as the body has not ended, and after the drop,
\* the chunks delivered are the first of the chunks of the newline-terminated
\* non-empty lines received so far, so the drop adds no sentinel, error or
\* other chunk.
C16_DropTruncatesStream ==
    /\ [](StreamSucceeds /\ (conn \in {"open", "dropped"} \/ caller.kind = "cut")
            => IsPrefix(caller.chunks, ChunksOf(TerminatedLines(Received))))
    /\ (conn = "dropped") ~> (relay = "idle" /\ conn = "closed")

\* a stream cut by a drop after one line was relayed and a part of the next
\* had arrived
C16_Witness ==
    /\ StreamSucceeds
    /\ caller.kind = "cut"
    /\ caller.chunks = <<<<JsonByte, Newline>>>>
    /\ buffer # <<>>

StreamAnswered == call.shape = "POST-STREAM" /\ upstream # NoUpstream

----------------------------------------------------------------------------
(* Properties of the store with a damaged index *)

Corrupted == ~indexFile.valid

\* C12: a list that finds the index file corrupted (unparseable) does not
\* fail: it answers the empty sequence, with no error, and the storage is as
\* it was (the index file is still the corrupted one).
C12_ListOfCorruptIndexIsEmpty ==
    (request.op = "list" /\ Corrupted) =>
        /\ reply.status = 200
        /\ reply.items = <<>>

\* C15: a save that finds the index file corrupted (unparseable) succeeds and
\* writes its document, and leaves a well-formed index whose only entry is
\* that of the conversation just saved.
C15_SaveRebuildsCorruptIndex ==
    [][(Corrupted /\ reply'.op = "save") =>
          /\ reply'.status = 200
          /\ convFiles'[reply'.doc[1].id] = reply'.doc
          /\ indexFile'.valid
          /\ indexFile'.items =
                <<NewEntry(reply'.doc[1].id, reply'.doc[1].title,
                           reply'.doc[1].updated_at, reply'.doc[1].created_at)>>]_vars

----------------------------------------------------------------------------
(* Properties of the store under requests that overlap *)

EntriesOf(conv_id) == {k \in 1..Len(indexFile.items) : indexFile.items[k].id = conv_id}

\* C18: whatever the order in which the event loop resumes the handlers of
\* overlapping save and delete requests, no index update is lost: every
\* conversation with a document has exactly one index entry, with the title
\* and updated_at of the document, and a conversation without document has
\* none; so two overlapping saves of new ids both have their entry once both
\* have completed.
C18_NoIndexUpdateLost ==
    \A i \in Ids :
        IF convFiles[i] = <<>>
        THEN EntriesOf(i) = {}
        ELSE /\ Cardinality(EntriesOf(i)) = 1
             /\ \A k \in EntriesOf(i) :
                   /\ indexFile.items[k].title = convFiles[i][1].title
                   /\ indexFile.items[k].updated_at = convFiles[i][1].updated_at

\* two saves of new conversations overlapped, and both have completed
C18_Witness ==
    /\ inflight = <<>>
    /\ overlapped
    /\ request.op = "save"
    /\ request.payload.id = <<>>
    /\ \A i \in Ids : convFiles[i] # <<>> /\ Cardinality(EntriesOf(i)) = 1
    /\ now = 1

====
